---- MODULE Spec2Model ----
\* Model of the DNS-01 certificate issuance run of main-dns.go: the account
\* bootstrap (loadAccount / createAccount), the order, the per-authorization
\* worker goroutines, the receive loop on the url channel and the finalization
\* stage of main.
EXTENDS Integers, Sequences, FiniteSets, TLC

VARIABLES
    domains,        \* the -domains flag: a string, as a sequence of characters
    accountFile,    \* content of the account file
    keyFile,        \* content of the key file
    certFile,       \* content of the certificate file
    pc,             \* position of main
    exit,           \* "running", "fatal" (log.Fatal -> os.Exit), "done" (main returned)
                    \* or "deadlock" (the Go runtime ended the blocked process)
    fatalReason,    \* which log.Fatal ended the run
    account,        \* main's account variable
    domainList,     \* main's domainList
    ids,            \* the identifiers handed to NewOrder
    order,          \* main's order variable
    wk,             \* the worker goroutines, one per authorization URL
    authStatus,     \* the authority's status of every authorization
    received,       \* the values main has received from the url channel
    certKey,        \* main's certKey
    csr,            \* main's csr
    certs,          \* main's certs
    hist,           \* history of the calls the run has made
    runs            \* number of times the program has been started

vars == << domains, accountFile, keyFile, certFile, pc, exit, fatalReason, account,
           domainList, ids, order, wk, authStatus, received, certKey, csr, certs,
           hist, runs >>

----------------------------------------------------------------------------
\* Bounds of the model

MaxDomLen == 2      \* longest -domains string, in characters
MaxAuth   == 2      \* most authorization URLs the authority returns in an order
MaxKey    == 1      \* private scalars ecdsa.GenerateKey draws from: 1..MaxKey
MaxTxt    == 2      \* most TXT values one query returns
MaxChain  == 2      \* longest certificate chain the authority returns
MaxRuns   == 2      \* program starts (account round trip)

Chars     == {"a", ","}
AcctURLs  == {"acct/1", "acct/2"}
TxtMod    == 2
TxtValues == 0 .. (TxtMod - 1)

Nil == -1           \* a nil *big.Int

----------------------------------------------------------------------------
\* Strings and numbers

RECURSIVE SeqsUpTo(_, _)
SeqsUpTo(S, n) ==
    IF n = 0 THEN { << >> }
    ELSE LET shorter == SeqsUpTo(S, n - 1)
         IN  shorter \cup { Append(s, c) : s \in shorter, c \in S }

Range(s) == { s[i] : i \in DOMAIN s }

\* strings.Split(s, ","): the pieces of s between the commas, empty pieces kept
RECURSIVE SplitFrom(_, _, _)
SplitFrom(s, i, cur) ==
    IF i > Len(s) THEN << cur >>
    ELSE IF s[i] = "," THEN << cur >> \o SplitFrom(s, i + 1, << >>)
    ELSE SplitFrom(s, i + 1, Append(cur, s[i]))

Split(s) == SplitFrom(s, 1, << >>)

\* big.Int's JSON form: the decimal digits of the number
RECURSIVE Digits(_)
Digits(n) == IF n < 10 THEN << n >> ELSE Append(Digits(n \div 10), n % 10)

RECURSIVE ParseDigits(_)
ParseDigits(ds) ==
    IF Len(ds) = 0 THEN 0
    ELSE 10 * ParseDigits(SubSeq(ds, 1, Len(ds) - 1)) + ds[Len(ds)]

----------------------------------------------------------------------------
\* Keys, accounts and the account file

\* the public point of a private scalar on the curve
PubX(d) == (7 * d + 3) % 23
PubY(d) == (5 * d * d + 1) % 23

\* ecdsa.GenerateKey(elliptic.P256(), rand.Reader) drawing the scalar d
GenerateKey(d) == [D |-> d, X |-> PubX(d), Y |-> PubY(d), Curve |-> "P-256"]

NoKey == [D |-> Nil, X |-> Nil, Y |-> Nil, Curve |-> ""]

\* acme.Account{}
NoAccount == [URL |-> "", PrivateKey |-> NoKey]

\* the signature a key makes of a fixed message (deterministic part)
Sign(key, msg) == IF key.D = Nil THEN Nil ELSE (key.D * msg + key.X) % 23

FileAbsent  == [kind |-> "absent",  url |-> "", D |-> << >>, X |-> << >>, Y |-> << >>, curve |-> ""]
FileGarbage == [kind |-> "garbage", url |-> "", D |-> << >>, X |-> << >>, Y |-> << >>, curve |-> ""]

\* json.Marshal(acmeAccountFile{PrivateKey: privKey, Url: url})
MarshalAccountBad(privKey, url) ==
    [kind |-> "json", url |-> url, D |-> Digits(privKey.D),
     X |-> Digits(privKey.Y), Y |-> Digits(privKey.X), curve |-> privKey.Curve]

MarshalAccount(privKey, url) ==
    [kind |-> "json", url |-> url, D |-> Digits(privKey.D),
     X |-> Digits(privKey.X), Y |-> Digits(privKey.Y), curve |-> privKey.Curve]

\* a *big.Int field of tmpPrivateKey after json.Unmarshal: nil when the field is missing
BigIntField(ds) == IF Len(ds) = 0 THEN Nil ELSE ParseDigits(ds)

\* json.Unmarshal(raw, &taf)
UnmarshalAccount(raw) ==
    [Url |-> raw.url,
     PrivateKey |-> [D |-> BigIntField(raw.D), X |-> BigIntField(raw.X),
                     Y |-> BigIntField(raw.Y), Curve |-> raw.curve]]

\* the ecdsa.PrivateKey loadAccount rebuilds from the file
RebuildKeyBad(taf) ==
    [D |-> taf.PrivateKey.D, X |-> taf.PrivateKey.X, Y |-> taf.PrivateKey.X,
     Curve |-> "P-256"]

RebuildKey(taf) ==
    [D |-> taf.PrivateKey.D, X |-> taf.PrivateKey.X, Y |-> taf.PrivateKey.Y,
     Curve |-> "P-256"]

\* an account file a run of createAccount leaves behind
WrittenFiles ==
    { MarshalAccount(GenerateKey(d), u) : d \in 1 .. MaxKey, u \in AcctURLs }

\* a parseable account file whose private scalar is missing
PartialFile ==
    [kind |-> "json", url |-> "acct/1", D |-> << >>, X |-> << >>, Y |-> << >>,
     curve |-> "P-256"]

----------------------------------------------------------------------------
\* The authority's data and the DNS-01 check

\* the identifiers the authority can put into an authorization of the order: a
\* requested domain; two authorizations can carry the same one (a wildcard
\* name and its base name, line 60)
AuthIdents(dl) == Range(dl)

\* chal.KeyAuthorization of the DNS-01 challenge of the i-th authorization
KeyAuthOf(i) == i

\* acme.EncodeDNS01KeyAuthorization: a digest of the key authorization
EncodeDNS01KeyAuthorization(k) == (k * k + 1) % TxtMod

\* the lists acme.NewTxtChange can return
TxtLists == SeqsUpTo(TxtValues, MaxTxt)

\* lines 132-139: resut after the loop over resList
RECURSIVE TxtLoopBad(_, _, _)
TxtLoopBad(resList, i, want) ==
    IF i > Len(resList) THEN TRUE
    ELSE IF resList[i] = want THEN TRUE
    ELSE TxtLoopBad(resList, i + 1, want)

RECURSIVE TxtLoop(_, _, _)
TxtLoop(resList, i, want) ==
    IF i > Len(resList) THEN FALSE
    ELSE IF resList[i] = want THEN TRUE
    ELSE TxtLoop(resList, i + 1, want)

----------------------------------------------------------------------------
\* Files of the finalization stage

NoPem == [Type |-> "", Bytes |-> << >>]

\* x509.MarshalECPrivateKey(certKey)
MarshalECPrivateKey(key) == << key.D, key.X, key.Y >>

\* pem.EncodeToMemory(&pem.Block{Type: t, Bytes: b})
PemBlock(t, b) == [Type |-> t, Bytes |-> b]

NoCertFile == [exists |-> FALSE, blocks |-> << >>]

\* lines 214-221: the certificate file written from certs
CertPem(cs) ==
    [exists |-> TRUE,
     blocks |-> [i \in 1 .. Len(cs) |-> PemBlock("CERTIFICATE", << cs[i] >>)]]

NoCsr == [CommonName |-> << >>, DNSNames |-> << >>, PublicKey |-> << Nil, Nil >>]

\* lines 182-188: the template of the certificate request
CsrTemplateBad(dl, key) ==
    [CommonName |-> dl[Len(dl)], DNSNames |-> Tail(dl), PublicKey |-> << key.X, key.Y >>]

CsrTemplate(dl, key) ==
    [CommonName |-> dl[1], DNSNames |-> dl, PublicKey |-> << key.X, key.Y >>]

\* line 189, x509.CreateCertificateRequest: the subject carries a common name
\* attribute only for a non-empty name; the names go into the SAN extension
CreateCertificateRequest(tpl) ==
    [subject |-> IF tpl.CommonName = << >> THEN << >> ELSE << tpl.CommonName >>,
     san     |-> tpl.DNSNames,
     spki    |-> tpl.PublicKey]

\* line 193, x509.ParseCertificateRequest
ParseCertificateRequest(der) ==
    [CommonName |-> IF der.subject = << >> THEN << >> ELSE der.subject[1],
     DNSNames   |-> der.san,
     PublicKey  |-> der.spki]

\* lines 182-196: the certificate request built from domainList and certKey
MakeCsr(dl, key) ==
    ParseCertificateRequest(CreateCertificateRequest(CsrTemplate(dl, key)))

NoOrder == [URL |-> "", Authorizations |-> << >>, Certificate |-> ""]

\* lines 99-102: the identifiers built from domainList
MakeIdsBad(dl) ==
    [i \in 1 .. Len(dl) |-> [Type |-> "dns", Value |-> dl[Len(dl) - i + 1]]]

MakeIds(dl) == [i \in 1 .. Len(dl) |-> [Type |-> "dns", Value |-> dl[i]]]

\* line 155: the number of values the loop receives from the url channel
BarrierCountBad(dl) == Len(dl) - 1

BarrierCountOver(dl) == Len(dl) + 1

BarrierCountSpawned(dl) == Len(order.Authorizations)

BarrierCount(dl) == Len(dl)

----------------------------------------------------------------------------
\* Initial state

Workers == 1 .. MaxAuth

IdleWorker ==
    [pc |-> "idle", ident |-> << >>, hasDns |-> FALSE, txt |-> "none",
     updateCalled |-> FALSE, nFetch |-> 0, nTxt |-> 0, nUpdate |-> 0]

NoHist ==
    [loadResult |-> "none", loadErr |-> "", createResult |-> "none",
     updateCalled |-> FALSE, updateArg |-> NoAccount, loadedFrom |-> NoAccount,
     orderCalled |-> FALSE, orderAccount |-> NoAccount,
     finalizeCalled |-> FALSE, csrSubmitted |-> NoCsr,
     fetchCalled |-> FALSE, fetchURL |-> "",
     keyWrites |-> 0, allOk |-> TRUE,
     persisted |-> NoAccount]

Init ==
    /\ domains \in SeqsUpTo(Chars, MaxDomLen)
    /\ accountFile \in {FileAbsent, FileGarbage, PartialFile} \cup WrittenFiles
    /\ keyFile = NoPem
    /\ certFile = NoCertFile
    /\ pc = "checkDomains"
    /\ exit = "running"
    /\ fatalReason = ""
    /\ account = NoAccount
    /\ domainList = << >>
    /\ ids = << >>
    /\ order = NoOrder
    /\ wk = [w \in Workers |-> IdleWorker]
    /\ authStatus = [w \in Workers |-> "none"]
    /\ received = << >>
    /\ certKey = NoKey
    /\ csr = NoCsr
    /\ certs = << >>
    /\ hist = NoHist
    /\ runs = 1

\* log.Fatal: the message is logged and the process exits
Fatal(reason) ==
    /\ exit' = "fatal"
    /\ fatalReason' = reason

Running == exit = "running"

----------------------------------------------------------------------------
\* main, lines 70-110: startup, account, order

\* line 71: domains == ""
DomainsMissingBad(d) == FALSE

DomainsMissing(d) == d = << >>

CheckDomains ==
    /\ Running /\ pc = "checkDomains"
    /\ IF DomainsMissing(domains)
       THEN /\ Fatal("NoDomains")
            /\ UNCHANGED pc
       ELSE /\ pc' = "newClient"
            /\ UNCHANGED << exit, fatalReason >>
    /\ UNCHANGED << domains, accountFile, keyFile, certFile, account, domainList, ids,
                    order, wk, authStatus, received, certKey, csr, certs, hist, runs >>

NewClient ==
    /\ Running /\ pc = "newClient"
    /\ \E ok \in BOOLEAN :
         IF ok
         THEN /\ pc' = "loadAccount"
              /\ UNCHANGED << exit, fatalReason, hist >>
         ELSE /\ Fatal("DirectoryError")
              /\ hist' = [hist EXCEPT !.allOk = FALSE]
              /\ UNCHANGED pc
    /\ UNCHANGED << domains, accountFile, keyFile, certFile, account, domainList, ids,
                    order, wk, authStatus, received, certKey, csr, certs, runs >>

\* lines 85-93: where main goes after loadAccount returned
AfterLoadBad(failed) == "collectIds"

AfterLoad(failed) == IF failed THEN "createAccount" ELSE "collectIds"

\* loadAccount and lines 84-93 of main: on any error main goes on to createAccount
LoadAccount ==
    /\ Running /\ pc = "loadAccount"
    /\ IF accountFile.kind # "json"
       THEN \* os.Stat fails (lines 230-232), or json.Unmarshal fails (lines 241-243)
            /\ hist' = [hist EXCEPT !.loadResult = "err",
                                    !.loadErr = IF accountFile.kind = "absent"
                                                THEN "NotFound" ELSE "CorruptState"]
            /\ pc' = AfterLoad(TRUE)
            /\ UNCHANGED account
       ELSE LET taf   == UnmarshalAccount(accountFile)
                apkey == RebuildKey(taf)
                acct  == [URL |-> taf.Url, PrivateKey |-> apkey]
            IN  \E ok \in BOOLEAN :
                  \* client.UpdateAccount(acct, true, contacts...)
                  IF ok /\ apkey.D # Nil
                  THEN /\ account' = acct
                       /\ pc' = AfterLoad(FALSE)
                       /\ hist' = [hist EXCEPT !.loadResult = "ok",
                                               !.updateCalled = TRUE,
                                               !.updateArg = acct,
                                               !.loadedFrom = hist.persisted]
                  ELSE /\ pc' = AfterLoad(TRUE)
                       /\ hist' = [hist EXCEPT !.loadResult = "err",
                                               !.loadErr = "UpdateError",
                                               !.updateCalled = TRUE,
                                               !.updateArg = acct,
                                               !.loadedFrom = hist.persisted]
                       /\ UNCHANGED account
    /\ UNCHANGED << domains, accountFile, keyFile, certFile, exit, fatalReason,
                    domainList, ids, order, wk, authStatus, received, certKey, csr,
                    certs, runs >>

\* lines 268-282, the account file when createAccount returns with outcome
\* out: written at line 280 only, after GenerateKey and NewAccount succeeded;
\* a failing WriteFile can leave the file truncated
FileAfterCreateBad(out, old, raw) ==
    IF out = "keyErr" THEN {old} ELSE {raw}

FileAfterCreate(out, old, raw) ==
    CASE out = "ok" -> {raw}
      [] out = "writeErr" -> {old, FileGarbage}
      [] OTHER -> {old}

\* createAccount and lines 89-92 of main: an error of createAccount is fatal
CreateAccount ==
    /\ Running /\ pc = "createAccount"
    /\ \E out \in {"keyErr", "registrationErr", "writeErr", "ok"},
          d \in 1 .. MaxKey, u \in AcctURLs :
         LET privKey == GenerateKey(d)
             acct    == [URL |-> u, PrivateKey |-> privKey]
         IN  /\ accountFile' \in
                   FileAfterCreate(out, accountFile, MarshalAccount(privKey, acct.URL))
             /\ IF out = "ok"
                THEN /\ account' = acct
                     /\ pc' = "collectIds"
                     /\ hist' = [hist EXCEPT !.createResult = "ok",
                                             !.persisted = acct]
                     /\ UNCHANGED << exit, fatalReason >>
                ELSE /\ Fatal("CreateAccountError")
                     /\ hist' = [hist EXCEPT !.createResult = out, !.allOk = FALSE]
                     /\ UNCHANGED << account, pc >>
    /\ UNCHANGED << domains, keyFile, certFile, domainList, ids, order, wk, authStatus,
                    received, certKey, csr, certs, runs >>

\* lines 96-102
CollectIds ==
    /\ Running /\ pc = "collectIds"
    /\ domainList' = Split(domains)
    /\ ids' = MakeIds(Split(domains))
    /\ pc' = "newOrder"
    /\ UNCHANGED << domains, accountFile, keyFile, certFile, exit, fatalReason, account,
                    order, wk, authStatus, received, certKey, csr, certs, hist, runs >>

\* lines 106-110: the authority answers with any number of authorization URLs
NewOrder ==
    /\ Running /\ pc = "newOrder"
    /\ \E ok \in BOOLEAN :
         IF ok
         THEN \E n \in 0 .. MaxAuth :
                /\ order' = [URL |-> "order/1",
                             Authorizations |-> [i \in 1 .. n |-> i],
                             Certificate |-> ""]
                /\ authStatus' = [w \in Workers |-> IF w <= n THEN "pending" ELSE "none"]
                /\ hist' = [hist EXCEPT !.orderCalled = TRUE,
                                        !.orderAccount = account,
                                        !.allOk = hist.allOk /\ n = Len(domainList)]
                /\ pc' = "spawn"
                /\ UNCHANGED << exit, fatalReason >>
         ELSE /\ Fatal("OrderRejected")
              /\ hist' = [hist EXCEPT !.orderCalled = TRUE,
                                      !.orderAccount = account,
                                      !.allOk = FALSE]
              /\ UNCHANGED << order, authStatus, pc >>
    /\ UNCHANGED << domains, accountFile, keyFile, certFile, account, domainList, ids,
                    wk, received, certKey, csr, certs, runs >>

----------------------------------------------------------------------------
\* main, lines 113-157: the workers and the receive loop

\* lines 114-153: one goroutine per authorization URL of the order
SpawnWorkers ==
    /\ Running /\ pc = "spawn"
    /\ wk' = [w \in Workers |->
                IF w <= Len(order.Authorizations)
                THEN [wk[w] EXCEPT !.pc = "fetch"] ELSE wk[w]]
    /\ pc' = "barrier"
    /\ UNCHANGED << domains, accountFile, keyFile, certFile, exit, fatalReason, account,
                    domainList, ids, order, authStatus, received, certKey, csr, certs,
                    hist, runs >>

\* the order of the steps of a worker, lines 117-151
NextStepBad(p) ==
    CASE p = "fetch"  -> "select"
      [] p = "select" -> "txt"
      [] p = "txt"    -> "send"
      [] p = "update" -> "send"
      [] OTHER        -> "end"

NextStepRetry(p) ==
    CASE p = "fetch"  -> "select"
      [] p = "select" -> "fetch"
      [] p = "txt"    -> "update"
      [] p = "update" -> "send"
      [] OTHER        -> "end"

NextStep(p) ==
    CASE p = "fetch"  -> "select"
      [] p = "select" -> "txt"
      [] p = "txt"    -> "update"
      [] p = "update" -> "send"
      [] OTHER        -> "end"

\* a goroutine writes the variables of its own closure (authUrl is passed by
\* value at line 152; auth, chal, err, resut, resList are declared inside)
SetWorkerBad(w, rec) == [v \in Workers |-> IF wk[v].pc = "idle" THEN wk[v] ELSE rec]

SetWorker(w, rec) == [wk EXCEPT ![w] = rec]

\* lines 118-122: client.FetchAuthorization
WFetch(w) ==
    /\ Running /\ wk[w].pc = "fetch"
    /\ \E ok \in BOOLEAN :
         IF ok
         THEN \E dns \in BOOLEAN, id \in AuthIdents(domainList) :
                /\ wk' = SetWorker(w, [wk[w] EXCEPT !.pc = NextStep("fetch"),
                                                    !.hasDns = dns,
                                                    !.ident = id,
                                                    !.nFetch = wk[w].nFetch + 1])
                /\ UNCHANGED << exit, fatalReason, hist >>
         ELSE /\ Fatal("AuthFetchError")
              /\ wk' = SetWorker(w, [wk[w] EXCEPT !.pc = "failed",
                                                  !.nFetch = wk[w].nFetch + 1])
              /\ hist' = [hist EXCEPT !.allOk = FALSE]
    /\ UNCHANGED << domains, accountFile, keyFile, certFile, pc, account, domainList,
                    ids, order, authStatus, received, certKey, csr, certs, runs >>

\* lines 125-128: the DNS-01 entry of auth.ChallengeMap
WSelect(w) ==
    /\ Running /\ wk[w].pc = "select"
    /\ IF wk[w].hasDns
       THEN /\ wk' = SetWorker(w, [wk[w] EXCEPT !.pc = NextStep("select")])
            /\ UNCHANGED << exit, fatalReason, hist >>
       ELSE /\ Fatal("ChallengeTypeMissing")
            /\ wk' = SetWorker(w, [wk[w] EXCEPT !.pc = "failed"])
            /\ hist' = [hist EXCEPT !.allOk = FALSE]
    /\ UNCHANGED << domains, accountFile, keyFile, certFile, pc, account, domainList,
                    ids, order, authStatus, received, certKey, csr, certs, runs >>

\* lines 130-139 for one answer resList of the TXT query: resut, and whether
\* the wanted value was among the values returned
TxtOutcome(resList, want) ==
    << TxtLoop(resList, 1, want),
       IF \E i \in DOMAIN resList : resList[i] = want THEN "match" ELSE "nomatch" >>

\* lines 130-142: the TXT query and the comparison of its values
WCheckTxt(w) ==
    /\ Running /\ wk[w].pc = "txt"
    /\ \E out \in { TxtOutcome(resList, EncodeDNS01KeyAuthorization(KeyAuthOf(w))) :
                          resList \in TxtLists } :
         LET resut == out[1]
             seen  == out[2]
         IN  IF resut
             THEN /\ wk' = SetWorker(w, [wk[w] EXCEPT !.pc = NextStep("txt"),
                                                      !.txt = seen,
                                                      !.nTxt = wk[w].nTxt + 1])
                  /\ UNCHANGED << exit, fatalReason, hist >>
             ELSE /\ Fatal("ChallengeUnproven")
                  /\ wk' = SetWorker(w, [wk[w] EXCEPT !.pc = "failed",
                                                      !.txt = seen,
                                                      !.nTxt = wk[w].nTxt + 1])
                  /\ hist' = [hist EXCEPT !.allOk = FALSE]
    /\ UNCHANGED << domains, accountFile, keyFile, certFile, pc, account, domainList,
                    ids, order, authStatus, received, certKey, csr, certs, runs >>

\* lines 144-150: client.UpdateChallenge; the authority validates on its own time
WUpdate(w) ==
    /\ Running /\ wk[w].pc = "update"
    /\ \E ok \in BOOLEAN :
         IF ok
         THEN /\ wk' = SetWorker(w, [wk[w] EXCEPT !.pc = NextStep("update"),
                                                  !.updateCalled = TRUE,
                                                  !.nUpdate = wk[w].nUpdate + 1])
              /\ \E st \in {"processing", "valid"} :
                   authStatus' = [authStatus EXCEPT ![w] = st]
              /\ UNCHANGED << exit, fatalReason, hist >>
         ELSE /\ Fatal("ChallengeUpdateError")
              /\ wk' = SetWorker(w, [wk[w] EXCEPT !.pc = "failed",
                                                  !.updateCalled = TRUE,
                                                  !.nUpdate = wk[w].nUpdate + 1])
              /\ hist' = [hist EXCEPT !.allOk = FALSE]
              /\ UNCHANGED authStatus
    /\ UNCHANGED << domains, accountFile, keyFile, certFile, pc, account, domainList,
                    ids, order, received, certKey, csr, certs, runs >>

\* the authority finishes validating a challenge it was told about
AuthorityValidate(w) ==
    /\ Running /\ authStatus[w] = "processing"
    /\ authStatus' = [authStatus EXCEPT ![w] = "valid"]
    /\ UNCHANGED << domains, accountFile, keyFile, certFile, pc, exit, fatalReason,
                    account, domainList, ids, order, wk, received, certKey, csr, certs,
                    hist, runs >>

\* line 151: the value a worker sends is auth.Identifier.Value
SentValueBad(w) == domainList[((w - 1) % Len(domainList)) + 1]

SentValue(w) == wk[w].ident

\* line 151 meets line 156: the unbuffered channel hands one value from a worker to main
Receive(w) ==
    /\ Running /\ pc = "barrier"
    /\ Len(received) < BarrierCount(domainList)
    /\ wk[w].pc = "send"
    /\ received' = Append(received, SentValue(w))
    /\ wk' = SetWorker(w, [wk[w] EXCEPT !.pc = NextStep("send")])
    /\ UNCHANGED << domains, accountFile, keyFile, certFile, pc, exit, fatalReason,
                    account, domainList, ids, order, authStatus, certKey, csr, certs,
                    hist, runs >>

\* lines 155-157: the loop ends after len(domainList) receives
BarrierRelease ==
    /\ Running /\ pc = "barrier"
    /\ Len(received) >= BarrierCount(domainList)
    /\ pc' = "genKey"
    /\ UNCHANGED << domains, accountFile, keyFile, certFile, exit, fatalReason, account,
                    domainList, ids, order, wk, authStatus, received, certKey, csr,
                    certs, hist, runs >>

\* lines 155-157 with every goroutine gone and too few values sent: main is
\* blocked in <-url for good. The Go runtime ends a process whose goroutines are
\* all asleep ("all goroutines are asleep - deadlock!", exit status 2) once no
\* network poller is left waiting; while one is, the process stays blocked.
RuntimeDeadlock ==
    /\ Running /\ pc = "barrier"
    /\ Len(received) < BarrierCount(domainList)
    /\ \A w \in Workers : wk[w].pc \in {"idle", "end"}
    /\ exit' = "deadlock"
    /\ UNCHANGED << domains, accountFile, keyFile, certFile, pc, fatalReason, account,
                    domainList, ids, order, wk, authStatus, received, certKey, csr,
                    certs, hist, runs >>

----------------------------------------------------------------------------
\* main, lines 159-226: finalization

\* the order of the steps of lines 159-226
NextStageBad(p) ==
    CASE p = "genKey"     -> "makeCsr"
      [] p = "writeKey"   -> "logDone"
      [] p = "makeCsr"    -> "finalize"
      [] p = "finalize"   -> "finalizing"
      [] p = "finalizing" -> "fetchCerts"
      [] p = "fetchCerts" -> "writeCert"
      [] p = "writeCert"  -> "writeKey"
      [] OTHER            -> "done"

NextStage(p) ==
    CASE p = "genKey"     -> "writeKey"
      [] p = "writeKey"   -> "makeCsr"
      [] p = "makeCsr"    -> "finalize"
      [] p = "finalize"   -> "finalizing"
      [] p = "finalizing" -> "fetchCerts"
      [] p = "fetchCerts" -> "writeCert"
      [] p = "writeCert"  -> "logDone"
      [] OTHER            -> "done"

\* lines 160-169
GenCertKey ==
    /\ Running /\ pc = "genKey"
    /\ \E ok \in BOOLEAN :
         IF ok
         THEN \E d \in 1 .. MaxKey :
                /\ certKey' = GenerateKey(d)
                /\ pc' = NextStage(pc)
                /\ UNCHANGED << exit, fatalReason, hist >>
         ELSE /\ Fatal("KeyGenError")
              /\ hist' = [hist EXCEPT !.allOk = FALSE]
              /\ UNCHANGED << certKey, pc >>
    /\ UNCHANGED << domains, accountFile, keyFile, certFile, account, domainList, ids,
                    order, wk, authStatus, received, csr, certs, runs >>

\* lines 172-178
WriteKeyFile ==
    /\ Running /\ pc = "writeKey"
    /\ \E ok \in BOOLEAN :
         IF ok
         THEN /\ keyFile' = PemBlock("EC PRIVATE KEY", MarshalECPrivateKey(certKey))
              /\ hist' = [hist EXCEPT !.keyWrites = hist.keyWrites + 1]
              /\ pc' = NextStage(pc)
              /\ UNCHANGED << exit, fatalReason >>
         ELSE /\ Fatal("KeyWriteError")
              /\ hist' = [hist EXCEPT !.allOk = FALSE]
              /\ UNCHANGED << keyFile, pc >>
    /\ UNCHANGED << domains, accountFile, certFile, account, domainList, ids, order, wk,
                    authStatus, received, certKey, csr, certs, runs >>

\* lines 181-196
CreateCsr ==
    /\ Running /\ pc = "makeCsr"
    /\ \E ok \in BOOLEAN :
         IF ok
         THEN /\ csr' = MakeCsr(domainList, certKey)
              /\ pc' = NextStage(pc)
              /\ UNCHANGED << exit, fatalReason, hist >>
         ELSE /\ Fatal("CsrError")
              /\ hist' = [hist EXCEPT !.allOk = FALSE]
              /\ UNCHANGED << csr, pc >>
    /\ UNCHANGED << domains, accountFile, keyFile, certFile, account, domainList, ids,
                    order, wk, authStatus, received, certKey, certs, runs >>

\* the authority issues only for an order whose authorizations are all valid
OrderReady ==
    \A w \in Workers : w <= Len(order.Authorizations) => authStatus[w] = "valid"

\* lines 199-200: the finalize request leaves; the workers keep running
\* while it is in flight
FinalizeOrder ==
    /\ Running /\ pc = "finalize"
    /\ hist' = [hist EXCEPT !.finalizeCalled = TRUE, !.csrSubmitted = csr]
    /\ pc' = NextStage(pc)
    /\ UNCHANGED << domains, accountFile, keyFile, certFile, exit, fatalReason, account,
                    domainList, ids, order, wk, authStatus, received, certKey, csr,
                    certs, runs >>

\* the certificate URL of the order the authority returns on finalize: present
\* once the certificate is issued
FinalizedCertURLs == {"", "cert/1"}

\* lines 200-203: the authority's answer to the finalize request
FinalizeReply ==
    /\ Running /\ pc = "finalizing"
    /\ \E ok \in BOOLEAN :
         IF ok /\ OrderReady
         THEN /\ \E c \in FinalizedCertURLs : order' = [order EXCEPT !.Certificate = c]
              /\ pc' = NextStage(pc)
              /\ UNCHANGED << exit, fatalReason, hist >>
         ELSE /\ Fatal("FinalizationError")
              /\ hist' = [hist EXCEPT !.allOk = FALSE]
              /\ UNCHANGED << order, pc >>
    /\ UNCHANGED << domains, accountFile, keyFile, certFile, account, domainList, ids,
                    wk, authStatus, received, certKey, csr, certs, runs >>

\* lines 206-210
FetchCertificates ==
    /\ Running /\ pc = "fetchCerts"
    /\ \E ok \in BOOLEAN :
         IF ok /\ order.Certificate # ""
         THEN \E n \in 1 .. MaxChain :
                /\ certs' = [i \in 1 .. n |-> i]
                /\ hist' = [hist EXCEPT !.fetchCalled = TRUE,
                                        !.fetchURL = order.Certificate]
                /\ pc' = NextStage(pc)
                /\ UNCHANGED << exit, fatalReason >>
         ELSE /\ Fatal("FetchError")
              /\ hist' = [hist EXCEPT !.fetchCalled = TRUE,
                                      !.fetchURL = order.Certificate,
                                      !.allOk = FALSE]
              /\ UNCHANGED << certs, pc >>
    /\ UNCHANGED << domains, accountFile, keyFile, certFile, account, domainList, ids,
                    order, wk, authStatus, received, certKey, csr, runs >>

\* lines 213-223
WriteCertFile ==
    /\ Running /\ pc = "writeCert"
    /\ \E ok \in BOOLEAN :
         IF ok
         THEN /\ certFile' = CertPem(certs)
              /\ pc' = NextStage(pc)
              /\ UNCHANGED << exit, fatalReason, hist >>
         ELSE /\ Fatal("CertWriteError")
              /\ hist' = [hist EXCEPT !.allOk = FALSE]
              /\ UNCHANGED << certFile, pc >>
    /\ UNCHANGED << domains, accountFile, keyFile, account, domainList, ids, order, wk,
                    authStatus, received, certKey, csr, certs, runs >>

\* lines 225-226: main returns and the process ends, with it every goroutine
MainReturn ==
    /\ Running /\ pc = "logDone"
    /\ pc' = NextStage(pc)
    /\ exit' = "done"
    /\ UNCHANGED << domains, accountFile, keyFile, certFile, fatalReason, account,
                    domainList, ids, order, wk, authStatus, received, certKey, csr,
                    certs, hist, runs >>

----------------------------------------------------------------------------
\* Specifications

Coordinator ==
    \/ CheckDomains
    \/ NewClient
    \/ LoadAccount
    \/ CreateAccount
    \/ CollectIds
    \/ NewOrder
    \/ SpawnWorkers
    \/ BarrierRelease
    \/ GenCertKey
    \/ WriteKeyFile
    \/ CreateCsr
    \/ FinalizeOrder
    \/ FinalizeReply
    \/ FetchCertificates
    \/ WriteCertFile
    \/ MainReturn

Worker(w) ==
    \/ WFetch(w)
    \/ WSelect(w)
    \/ WCheckTxt(w)
    \/ WUpdate(w)

Next ==
    \/ Coordinator
    \/ \E w \in Workers : Worker(w)
    \/ \E w \in Workers : Receive(w)
    \/ \E w \in Workers : AuthorityValidate(w)
    \/ RuntimeDeadlock

Spec == Init /\ [][Next]_vars

\* the program is started again: files stay, everything else starts afresh
Restart ==
    /\ runs < MaxRuns
    /\ exit # "running" \/ pc = "collectIds"
    /\ runs' = runs + 1
    /\ pc' = "checkDomains"
    /\ exit' = "running"
    /\ fatalReason' = ""
    /\ account' = NoAccount
    /\ domainList' = << >>
    /\ ids' = << >>
    /\ order' = NoOrder
    /\ wk' = [w \in Workers |-> IdleWorker]
    /\ authStatus' = [w \in Workers |-> "none"]
    /\ received' = << >>
    /\ certKey' = NoKey
    /\ csr' = NoCsr
    /\ certs' = << >>
    /\ hist' = [NoHist EXCEPT !.persisted = hist.persisted]
    /\ UNCHANGED << domains, accountFile, keyFile, certFile >>

\* the account stage of main, over several starts of the program
NextAccount ==
    \/ CheckDomains
    \/ NewClient
    \/ LoadAccount
    \/ CreateAccount
    \/ Restart

SpecAccount == Init /\ [][NextAccount]_vars

\* goroutines and main are scheduled fairly; the authority answers
FairSpec ==
    /\ Init
    /\ [][Next]_vars
    /\ WF_vars(Coordinator)
    /\ \A w \in Workers : WF_vars(Worker(w))
    /\ \A w \in Workers : WF_vars(Receive(w))
    /\ \A w \in Workers : WF_vars(AuthorityValidate(w))

----------------------------------------------------------------------------
\* Properties

FinalStages ==
    {"genKey", "writeKey", "makeCsr", "finalize", "finalizing", "fetchCerts", "writeCert",
     "logDone", "done"}

KeyFileOf(key) == PemBlock("EC PRIVATE KEY", MarshalECPrivateKey(key))

\* C1: main does not enter the finalization stage (certificate key, key file,
\* CSR, FinalizeOrder) before it has received exactly len(domainList) values
\* from the url channel.
C1_BarrierCountsDomains ==
    (\/ pc \in FinalStages
     \/ certKey # NoKey
     \/ keyFile # NoPem
     \/ csr # NoCsr
     \/ hist.finalizeCalled)
    => /\ domainList = Split(domains)
       /\ Len(received) = Len(domainList)

C1_Witness ==
    /\ pc = "finalize"
    /\ Len(domainList) = 2
    /\ Len(received) = 2

\* C2: FinalizeOrder is not called before the worker of every authorization
\* URL of the order has sent its completion value, however many URLs there are.
C2_EveryWorkerReported ==
    hist.finalizeCalled =>
        \A w \in Workers : w <= Len(order.Authorizations) => wk[w].pc = "end"

\* C3: whenever FinalizeOrder is attempted, every authorization of the order
\* is valid on the authority.
C3_ValidBeforeFinalize ==
    [][(~hist.finalizeCalled /\ hist'.finalizeCalled) => OrderReady]_vars

\* C4: if a worker fails, the run ends fatally, FinalizeOrder is never called
\* and no certificate file is written.
C4_WorkerFailureIsTotal ==
    (\E w \in Workers : wk[w].pc = "failed")
    => /\ exit = "fatal"
       /\ ~hist.finalizeCalled
       /\ certFile = NoCertFile

\* C5: a worker calls UpdateChallenge and signals only after a TXT value equal
\* to the encoded key authorization was returned; a query without such a value
\* ends the run with ChallengeUnproven and without UpdateChallenge.
C5_TxtMatchRequired ==
    \A w \in Workers :
        /\ (wk[w].updateCalled \/ wk[w].pc \in {"update", "send", "end"})
               => wk[w].txt = "match"
        /\ wk[w].txt = "nomatch"
               => /\ wk[w].pc = "failed"
                  /\ ~wk[w].updateCalled
                  /\ exit = "fatal"
                  /\ fatalReason = "ChallengeUnproven"

C5_Witness ==
    \E v, w \in Workers :
        /\ wk[v].txt = "match" /\ wk[v].updateCalled
        /\ wk[w].txt = "nomatch" /\ fatalReason = "ChallengeUnproven"

\* C6: loadAccount is tried first; createAccount is called exactly when
\* loadAccount failed; a failure of createAccount is fatal; NewOrder is only
\* called with the account a successful load or create returned.
C6_LoadThenCreate ==
    /\ pc \notin {"checkDomains", "newClient", "loadAccount"}
           => hist.loadResult # "none"
    /\ (pc = "createAccount" \/ hist.createResult # "none")
           <=> hist.loadResult = "err"
    /\ hist.createResult \in {"keyErr", "registrationErr", "writeErr"}
           => exit = "fatal" /\ fatalReason = "CreateAccountError" /\ ~hist.orderCalled
    /\ hist.orderCalled
           => /\ hist.orderAccount # NoAccount
              /\ \/ /\ hist.loadResult = "ok"
                    /\ hist.createResult = "none"
                    /\ hist.orderAccount = hist.updateArg
                 \/ /\ hist.loadResult = "err"
                    /\ hist.createResult = "ok"
                    /\ hist.orderAccount = hist.persisted

C6_Witness ==
    /\ hist.orderCalled
    /\ hist.loadResult = "err"
    /\ hist.updateCalled
    /\ hist.createResult = "ok"

\* C7: the CSR handed to FinalizeOrder names exactly the domains of the domain
\* list as subject alternative names and the first domain as common name.
C7_CsrNamesDomains ==
    hist.finalizeCalled =>
        /\ domainList # << >>
        /\ Range(hist.csrSubmitted.DNSNames) = Range(domainList)
        /\ hist.csrSubmitted.CommonName = domainList[1]

C7_Witness ==
    /\ hist.finalizeCalled
    /\ Len(domainList) = 2
    /\ domainList[1] # domainList[2]

\* C8: FinalizeOrder and FetchCertificates are only called once the key file
\* holds the certificate key, and the key file stays written when the run
\* fails at or after FinalizeOrder.
C8_KeyFileBeforeNetwork ==
    (hist.finalizeCalled \/ hist.fetchCalled \/ pc \in {"fetchCerts", "writeCert", "logDone", "done"})
    => /\ certKey # NoKey
       /\ keyFile = KeyFileOf(certKey)
       /\ hist.keyWrites = 1

C8_Witness ==
    /\ exit = "fatal"
    /\ fatalReason \in {"FinalizationError", "FetchError"}
    /\ keyFile # NoPem

\* C9: when every external call succeeds and the order has one authorization
\* per domain, a fairly scheduled run ends at Done with the key file written
\* once and a certificate file of at least one certificate.
C9_Success ==
    /\ exit = "done"
    /\ hist.keyWrites = 1
    /\ keyFile = KeyFileOf(certKey)
    /\ certFile.exists
    /\ Len(certFile.blocks) >= 1
    /\ \A i \in DOMAIN certFile.blocks : certFile.blocks[i].Type = "CERTIFICATE"

C9_FairRunCompletes ==
    [](domains # << >> /\ hist.allOk) => <>C9_Success

C9_Witness ==
    /\ C9_Success
    /\ hist.allOk
    /\ Len(domainList) = 2
    /\ \A w \in Workers : wk[w].pc = "end"

\* C10: an account file written by createAccount, when loaded by a later
\* start of the program, yields the same key (curve, private scalar, public
\* point, hence the same signatures) and the same account URL, and these are
\* what loadAccount presents to UpdateAccount.
C10_AccountRoundTrip ==
    (hist.updateCalled /\ hist.loadedFrom # NoAccount)
    => /\ hist.updateArg.URL = hist.loadedFrom.URL
       /\ hist.updateArg.PrivateKey = hist.loadedFrom.PrivateKey
       /\ \A msg \in 1 .. 3 :
              Sign(hist.updateArg.PrivateKey, msg) = Sign(hist.loadedFrom.PrivateKey, msg)

C10_Witness ==
    /\ runs = 2
    /\ hist.updateCalled
    /\ hist.loadedFrom # NoAccount
    /\ hist.loadedFrom.PrivateKey.D >= 1

\* C11: FetchCertificates is only called with the certificate URL the
\* finalized order reports, never with an empty one.
C11_FetchHasCertURL ==
    hist.fetchCalled => hist.fetchURL # ""

\* a key pair with its private scalar and both public coordinates
ValidKeyPair(key) == key.D # Nil /\ key.X # Nil /\ key.Y # Nil

\* C12: loadAccount returns NotFound for a missing account file and
\* CorruptState for a file that does not hold a valid key pair (a parseable
\* file without scalar or coordinates included), in both cases without
\* calling UpdateAccount.
C12_LoadRejectsBadFile ==
    [][(pc = "loadAccount" /\ pc' # "loadAccount")
         => /\ accountFile.kind = "absent"
                 => hist'.loadErr = "NotFound" /\ ~hist'.updateCalled
            /\ (/\ accountFile.kind # "absent"
                /\ ~ValidKeyPair(RebuildKey(UnmarshalAccount(accountFile))))
                 => hist'.loadErr = "CorruptState" /\ ~hist'.updateCalled]_vars

\* C13: with an empty domain list, or a directory that cannot be reached, the
\* process exits at once: no account is loaded or created, NewOrder is not
\* called and no account, key or certificate file is written.
C13_StartupErrorsFatal ==
    /\ domains = << >> => pc = "checkDomains" /\ exit # "done"
    /\ (domains = << >> /\ exit # "running")
           => exit = "fatal" /\ fatalReason = "NoDomains"
    /\ fatalReason \in {"NoDomains", "DirectoryError"}
           => /\ exit = "fatal"
              /\ pc \in {"checkDomains", "newClient"}
              /\ hist.loadResult = "none" /\ ~hist.updateCalled
              /\ hist.createResult = "none"
              /\ hist.persisted = NoAccount
              /\ ~hist.orderCalled
              /\ keyFile = NoPem
              /\ certFile = NoCertFile

C13_Witness ==
    /\ domains = << >>
    /\ exit = "fatal"
    /\ fatalReason = "NoDomains"

\* number of times v occurs in the sequence s
Count(s, v) == Cardinality({ i \in DOMAIN s : s[i] = v })

\* the workers whose value main has received
Sent == { w \in Workers : wk[w].pc = "end" }

\* C14 as stated: when the barrier releases, the received identifiers are the
\* requested domains, each exactly as often as it was requested.
C14_OnePerDomain ==
    pc \in FinalStages =>
        \A d \in Range(domainList) \cup Range(received) :
            Count(received, d) = Count(domainList, d)

\* C14, amended: main receives len(domainList) values; every worker sends at
\* most one; the received values are the authorization identifiers of the
\* workers that sent, each as often as a sender carries it.
C14_OnePerSender ==
    /\ pc \in FinalStages => Len(received) = Len(domainList)
    /\ Len(received) = Cardinality(Sent)
    /\ \A w \in Workers : wk[w].pc \in {"send", "end"} => wk[w].ident \in Range(domainList)
    /\ \A v \in Range(received) \cup { wk[w].ident : w \in Sent } :
           Count(received, v) = Cardinality({ w \in Sent : wk[w].ident = v })

C14_Witness ==
    /\ pc \in FinalStages
    /\ Len(received) = 2
    /\ received[1] = received[2]
    /\ domainList[1] # domainList[2]

\* C15: a worker fetches its authorization, selects the DNS-01 challenge,
\* checks the TXT values, calls UpdateChallenge and then sends, in this order;
\* it sends only after the authority accepted UpdateChallenge, and a rejected
\* UpdateChallenge ends the run without a value sent by that worker.
C15_WorkerStepOrder ==
    \A w \in Workers :
        /\ wk[w].pc \in {"select", "txt", "update", "send", "end"} => wk[w].nFetch = 1
        /\ wk[w].pc \in {"txt", "update", "send", "end"} => wk[w].hasDns
        /\ wk[w].nTxt >= 1 => wk[w].nFetch = 1 /\ wk[w].hasDns
        /\ wk[w].pc \in {"update", "send", "end"} => wk[w].nTxt = 1 /\ wk[w].txt = "match"
        /\ wk[w].nUpdate >= 1 => wk[w].nTxt = 1 /\ wk[w].txt = "match"
        /\ wk[w].pc \in {"send", "end"}
               => /\ wk[w].nUpdate = 1
                  /\ authStatus[w] \in {"processing", "valid"}
        /\ (wk[w].nUpdate >= 1 /\ authStatus[w] = "pending")
               => /\ wk[w].pc = "failed"
                  /\ exit = "fatal"
                  /\ fatalReason = "ChallengeUpdateError"

C15_Witness ==
    \E v, w \in Workers :
        /\ wk[v].pc = "end"
        /\ wk[w].pc = "failed" /\ wk[w].nUpdate = 1
        /\ fatalReason = "ChallengeUpdateError"

\* C16: nothing is retried: a worker makes at most one FetchAuthorization,
\* one TXT query and one UpdateChallenge, and a TXT query without a match is
\* the worker's last step.
C16_NoRetry ==
    \A w \in Workers :
        /\ wk[w].nFetch <= 1
        /\ wk[w].nTxt <= 1
        /\ wk[w].nUpdate <= 1
        /\ wk[w].txt = "nomatch"
               => wk[w].pc = "failed" /\ wk[w].nTxt = 1 /\ exit = "fatal"

C16_Witness ==
    \E v, w \in Workers :
        /\ wk[v].nFetch = 1 /\ wk[v].nTxt = 1 /\ wk[v].nUpdate = 1
        /\ wk[w].txt = "nomatch" /\ wk[w].pc = "failed"

\* C17: a step of a worker changes that worker's own variables and, when it
\* sends, the channel, and nothing else of the program; main's account and
\* order stay as they are from the creation of the order to the release of
\* the barrier.
C17_WorkerFrame ==
    [][/\ (wk' # wk /\ pc' = pc)
            => /\ Cardinality({ w \in Workers : wk'[w] # wk[w] }) = 1
               /\ UNCHANGED << domains, accountFile, keyFile, certFile, account,
                               domainList, ids, order, certKey, csr, certs >>
               /\ received' # received
                      => \E w \in Workers :
                            /\ wk[w].pc = "send" /\ wk'[w].pc = "end"
                            /\ received' = Append(received, wk[w].ident)
       /\ (hist.orderCalled /\ pc \in {"spawn", "barrier"})
            => account' = account /\ order' = order]_vars

C17_Witness ==
    \E v, w \in Workers :
        /\ v # w
        /\ wk[v].pc = "update"
        /\ wk[w].pc = "end"
        /\ pc = "barrier"

\* C18: the identifiers passed to NewOrder are the requested domains, one
\* identifier of type "dns" per domain in the order of the input, and the
\* names the submitted certificate request carries are, as a set, the values
\* of those identifiers.
C18_IdsAreDomains ==
    /\ hist.orderCalled =>
          /\ Len(ids) = Len(Split(domains))
          /\ \A i \in 1 .. Len(ids) :
                ids[i] = [Type |-> "dns", Value |-> Split(domains)[i]]
    /\ hist.finalizeCalled =>
          Range(hist.csrSubmitted.DNSNames) = { ids[i].Value : i \in 1 .. Len(ids) }

C18_Witness ==
    /\ hist.finalizeCalled
    /\ Len(ids) = 2
    /\ ids[1].Value # ids[2].Value

\* C19: createAccount writes the account file only after NewAccount succeeded;
\* when the key generation or the registration fails the file is as it was and
\* the run ends with the error; on success the file holds the URL the
\* authority returned and the key pair just generated.
C19_WriteAfterRegistration ==
    [][(hist.createResult = "none" /\ hist'.createResult # "none")
         => /\ hist'.createResult \in {"keyErr", "registrationErr"}
                 => /\ accountFile' = accountFile
                    /\ exit' = "fatal"
                    /\ fatalReason' = "CreateAccountError"
            /\ hist'.createResult = "ok"
                 => /\ accountFile'.kind = "json"
                    /\ UnmarshalAccount(accountFile').Url = account'.URL
                    /\ RebuildKey(UnmarshalAccount(accountFile')) = account'.PrivateKey
                    /\ ValidKeyPair(account'.PrivateKey)
                    /\ account'.URL \in AcctURLs]_vars

C19_Witness ==
    /\ hist.createResult = "registrationErr"
    /\ hist.loadErr = "UpdateError"
    /\ accountFile \in WrittenFiles
    /\ exit = "fatal"

\* the authority answered NewOrder with fewer authorizations than there are
\* requested domains
FewerAuthorizations ==
    /\ hist.orderCalled
    /\ order.URL # ""
    /\ Len(order.Authorizations) < Len(domainList)

\* every spawned worker has sent its value and returned
AllWorkersSucceeded ==
    /\ pc \notin {"newOrder", "spawn"}
    /\ \A w \in Workers : w <= Len(order.Authorizations) => wk[w].pc = "end"

NeverFinalizes ==
    /\ pc \notin FinalStages
    /\ Len(received) < Len(domainList)
    /\ ~hist.finalizeCalled
    /\ certKey = NoKey
    /\ keyFile = NoPem
    /\ certFile = NoCertFile
    /\ exit # "done"

\* C20 as stated: with fewer authorizations than domains and every worker
\* successful, main stays at the barrier, the run never finalizes, writes no key
\* or certificate file, and the process never terminates.
C20_BlocksForever ==
    (FewerAuthorizations /\ AllWorkersSucceeded)
    => /\ NeverFinalizes
       /\ pc = "barrier"
       /\ exit = "running"

\* C20 amended: with fewer authorizations than domains the run never
\* finalizes, writes no key or certificate file and never returns from main;
\* when every worker succeeded main is at the barrier and the process is either
\* still blocked there or was ended by the runtime's deadlock detection.
C20_NeverCompletes ==
    FewerAuthorizations
    => /\ NeverFinalizes
       /\ AllWorkersSucceeded
            => pc = "barrier" /\ exit \in {"running", "deadlock"}

C20_Witness ==
    /\ FewerAuthorizations
    /\ AllWorkersSucceeded
    /\ Len(order.Authorizations) = 1
    /\ Len(received) = 1
    /\ exit = "deadlock"

====
